---- MODULE Spec2Model ----
(***************************************************************************)
(* valutatrade_hub: the rate cache (parser_service) and the trade          *)
(* settlement use-cases (core.usecases) over the JSON tables of            *)
(* infra.database.                                                         *)
(*                                                                         *)
(* Amounts, balances and rates are integers (the code uses floats; no      *)
(* rounding is modelled).  A derived rate is kept as a fraction num/den.   *)
(* A pair key "A_B" is the tuple <<A, B>>: codes hold no underscore, so    *)
(* f"{A}_{B}" and split('_') are inverse to one another.                   *)
(* Timestamps are seconds; an ISO string of a naive datetime is the number *)
(* of seconds it was built from.                                           *)
(***************************************************************************)
EXTENDS Integers, Sequences, FiniteSets, TLC

VARIABLES
    users,          \* table 'users'       (data/users.json)
    portfolios,     \* table 'portfolios'  (data/portfolios.json)
    rates,          \* table 'rates'       (data/rates.json): [pairs, last_refresh]
    history,        \* table 'exchange_rates' (data/exchange_rates.json)
    current_user,   \* SESSION["current_user"]: a user_id, 0 for None
    clock,          \* the UTC wall clock, seconds
    utcoffset,      \* the host's local time minus UTC, seconds
    wallet,         \* a Wallet object held by a caller of core.models
    ret             \* what the last call returned or raised

vars == <<users, portfolios, rates, history, current_user, clock, utcoffset, wallet, ret>>

----------------------------------------------------------------------------
(* Bounds of the model *)

MaxTime == 301
MaxHistory == 2
MaxUsers == 2
MaxBalance == 3

\* How far one step moves the clock: up to the TTL, or just past it.
TickSteps == {300, 301}
\* Hosts west of, at and east of UTC.
TzOffsets == {0 - 3600, 0, 3600}
\* What each client quotes for a pair
Quotes(name) == IF name = "coingecko" THEN {2, 4} ELSE {3}
\* The pairs each shipped client asks its service for (config.CRYPTO_ID_MAP,
\* config.FIAT_CURRENCIES against BASE_CURRENCY), among the pairs of the model.
ClientPairs(name) == IF name = "coingecko" THEN {<<"BTC", "USD">>} ELSE {<<"EUR", "USD">>}

----------------------------------------------------------------------------
(* Settings and configuration *)

RATES_TTL_SECONDS == 300
DEFAULT_BASE_CURRENCY == "USD"

\* _currency_registry
currency_registry == {"USD", "EUR", "RUB", "BTC", "ETH"}

\* Codes of the shape ^[A-Z]{2,5}$ among those the model uses ("btc" is not).
WellFormedCodes == currency_registry \cup {"GBP", "SOL"}

is_valid_currency_code(code) == code \in WellFormedCodes

\* get_currency(code): TRUE when it returns, FALSE when it raises
\* CurrencyNotFoundError (every well-formed code is already upper case).
get_currency(code) == is_valid_currency_code(code) /\ code \in currency_registry

PairKey(from, to) == <<from, to>>

\* The pair keys of the model, in the order a source's mapping lists them.
PairOrder == << PairKey("BTC", "USD"), PairKey("ETH", "USD"), PairKey("EUR", "USD"),
               PairKey("RUB", "USD"), PairKey("USD", "BTC") >>

Range(s) == {s[i] : i \in 1..Len(s)}

\* The keys the clients of the updater's own model quote: one crypto pair and
\* one fiat pair, f"{ticker}_{BASE_CURRENCY}"
PairKeys == {PairKey("BTC", "USD"), PairKey("EUR", "USD")}

\* The keys a client may quote the other way round: the base priced in a ticker
ReversedKeys == {p \in Range(PairOrder) : p[1] = DEFAULT_BASE_CURRENCY}

\* RatesUpdater.clients, in insertion order
Clients == << "coingecko", "exchangerate" >>

\* What the caller passes as source: "" (falsy) is no filter.
SourceArgs == {"", "coingecko", "exchangerate", "binance"}

----------------------------------------------------------------------------
(* parser_service.storage *)

NoRefresh == << >>

EmptySnapshot == [pairs |-> << >>, last_refresh |-> NoRefresh]

\* datetime.utcnow() and datetime.now() (naive, local)
utcnow == clock
localnow == clock + utcoffset

\* (mutant) the table is rewritten with the new record alone
save_rate_to_history_rewrite(H, from_currency, to_currency, rate, source, timestamp) ==
    << [id            |-> <<from_currency, to_currency, timestamp>>,
        from_currency |-> from_currency,
        to_currency   |-> to_currency,
        rate          |-> rate,
        timestamp     |-> timestamp,
        source        |-> source] >>

\* (mutant) no record is added to the table
save_rate_to_history_drop(H, from_currency, to_currency, rate, source, timestamp) == H

save_rate_to_history(H, from_currency, to_currency, rate, source, timestamp) ==
    Append(H, [id            |-> <<from_currency, to_currency, timestamp>>,
               from_currency |-> from_currency,
               to_currency   |-> to_currency,
               rate          |-> rate,
               timestamp     |-> timestamp,
               source        |-> source])

\* (mutant) the snapshot is rebuilt from the pairs of the run alone
update_rates_snapshot_replace(R, rates_data, sources, now) ==
    [pairs        |-> [p \in DOMAIN rates_data |->
                          [rate       |-> rates_data[p],
                           updated_at |-> now,
                           source     |-> IF p \in DOMAIN sources THEN sources[p] ELSE "Unknown"]],
     last_refresh |-> <<now>>]

update_rates_snapshot(R, rates_data, sources, now) ==
    LET entry(p) == [rate       |-> rates_data[p],
                     updated_at |-> now,
                     source     |-> IF p \in DOMAIN sources THEN sources[p] ELSE "Unknown"]
        keys == DOMAIN R.pairs \cup DOMAIN rates_data
    IN  [pairs        |-> [p \in keys |-> IF p \in DOMAIN rates_data THEN entry(p) ELSE R.pairs[p]],
         last_refresh |-> <<now>>]

----------------------------------------------------------------------------
(* parser_service.updater *)

\* What one client's fetch_rates() does: return a mapping, raise
\* ApiRequestError, or raise anything else.
FetchOk(f) == [rates |-> f, kind |-> "ok"]
FetchApiError == [rates |-> << >>, kind |-> "ApiRequestError"]
FetchCrash == [rates |-> << >>, kind |-> "Exception"]

\* The mappings a client may return: any set of pairs, at its quote.
RateMaps(name) == {[p \in S |-> v] : S \in SUBSET PairKeys, v \in Quotes(name)}

FetchOutcomes(name) == {FetchOk(f) : f \in RateMaps(name)} \cup {FetchApiError, FetchCrash}

\* What a client that the source argument leaves out would return if it were
\* called: its own pairs at its lowest quote.
Unselected(name) ==
    FetchOk([p \in ClientPairs(name) |->
                CHOOSE v \in Quotes(name) : \A w \in Quotes(name) : v <= w])

\* The outcomes of the clients a call with this source argument can reach
\* (a client that is not selected is given one outcome).
Fetches(source) ==
    {fetch \in [Range(Clients) -> UNION {FetchOutcomes(name) : name \in Range(Clients)}] :
        \A name \in Range(Clients) :
            /\ fetch[name] \in FetchOutcomes(name)
            /\ (source # "" /\ name # source) => fetch[name] = Unselected(name)}

\* The keys of a mapping in its iteration order
KeysInOrder(f) == SelectSeq(PairOrder, LAMBDA p : p \in DOMAIN f)

\* (mutant) the merge keeps the value a key already has
DictUpdate_keep_first(d, f) ==
    [keys |-> d.keys \o SelectSeq(KeysInOrder(f), LAMBDA p : p \notin Range(d.keys)),
     map  |-> [p \in DOMAIN d.map \cup DOMAIN f |-> IF p \in DOMAIN d.map THEN d.map[p] ELSE f[p]]]

\* dict.update: new keys go to the end, old keys keep their place
DictUpdate(d, f) ==
    [keys |-> d.keys \o SelectSeq(KeysInOrder(f), LAMBDA p : p \notin Range(d.keys)),
     map  |-> [p \in DOMAIN d.map \cup DOMAIN f |-> IF p \in DOMAIN f THEN f[p] ELSE d.map[p]]]

EmptyDict == [keys |-> << >>, map |-> << >>]

UpdateResult(source_name, rates_count) == [source_name |-> source_name, rates_count |-> rates_count]

ErrorMsg(name) == <<"Failed to fetch from", name>>

LoopStart == [all_rates |-> EmptyDict, all_sources |-> << >>, results |-> << >>,
              errors |-> << >>, invoked |-> << >>, raised |-> "ok"]

\* (mutant) an ApiRequestError is not caught: it ends the run
LoopBody_abort(acc, name, outcome) ==
    LET called == [acc EXCEPT !.invoked = Append(@, name)]
    IN  CASE outcome.kind = "ok" ->
                [called EXCEPT
                    !.all_rates = DictUpdate(@, outcome.rates),
                    !.all_sources = [p \in DOMAIN @ \cup DOMAIN outcome.rates |->
                                        IF p \in DOMAIN outcome.rates THEN name ELSE @[p]],
                    !.results = Append(@, UpdateResult(name, Cardinality(DOMAIN outcome.rates)))]
          [] OTHER ->
                [called EXCEPT !.raised = outcome.kind]

\* (mutant) every exception of a client is caught and reported like an
\* ApiRequestError
LoopBody_swallow(acc, name, outcome) ==
    LET called == [acc EXCEPT !.invoked = Append(@, name)]
    IN  CASE outcome.kind = "ok" ->
                [called EXCEPT
                    !.all_rates = DictUpdate(@, outcome.rates),
                    !.all_sources = [p \in DOMAIN @ \cup DOMAIN outcome.rates |->
                                        IF p \in DOMAIN outcome.rates THEN name ELSE @[p]],
                    !.results = Append(@, UpdateResult(name, Cardinality(DOMAIN outcome.rates)))]
          [] OTHER ->
                [called EXCEPT !.errors = Append(@, ErrorMsg(name))]

\* (mutant) rates_count is taken from the merged mapping, after the update
LoopBody_count_merged(acc, name, outcome) ==
    LET called == [acc EXCEPT !.invoked = Append(@, name)]
    IN  CASE outcome.kind = "ok" ->
                [called EXCEPT
                    !.all_rates = DictUpdate(@, outcome.rates),
                    !.all_sources = [p \in DOMAIN @ \cup DOMAIN outcome.rates |->
                                        IF p \in DOMAIN outcome.rates THEN name ELSE @[p]],
                    !.results = Append(@, UpdateResult(name,
                                    Cardinality(DOMAIN DictUpdate(acc.all_rates, outcome.rates).map)))]
          [] outcome.kind = "ApiRequestError" ->
                [called EXCEPT !.errors = Append(@, ErrorMsg(name))]
          [] OTHER ->
                [called EXCEPT !.raised = outcome.kind]

\* One pass of "for name, client in clients_to_run" with its try/except
LoopBody(acc, name, outcome) ==
    LET called == [acc EXCEPT !.invoked = Append(@, name)]
    IN  CASE outcome.kind = "ok" ->
                [called EXCEPT
                    !.all_rates = DictUpdate(@, outcome.rates),
                    !.all_sources = [p \in DOMAIN @ \cup DOMAIN outcome.rates |->
                                        IF p \in DOMAIN outcome.rates THEN name ELSE @[p]],
                    !.results = Append(@, UpdateResult(name, Cardinality(DOMAIN outcome.rates)))]
          [] outcome.kind = "ApiRequestError" ->
                [called EXCEPT !.errors = Append(@, ErrorMsg(name))]
          [] OTHER ->
                [called EXCEPT !.raised = outcome.kind]

RECURSIVE FetchLoop(_, _, _, _)
FetchLoop(names, i, fetch, acc) ==
    IF i > Len(names) \/ acc.raised # "ok" THEN acc
    ELSE FetchLoop(names, i + 1, fetch, LoopBody(acc, names[i], fetch[names[i]]))

RECURSIVE SaveAll(_, _, _, _, _)
SaveAll(H, keys, i, acc, now) ==
    IF i > Len(keys) THEN H
    ELSE SaveAll(save_rate_to_history(H, keys[i][1], keys[i][2], acc.all_rates.map[keys[i]],
                                      acc.all_sources[keys[i]], now),
                 keys, i + 1, acc, now)

\* (mutant) the tables are written after every run
ShouldWrite_always(acc) == TRUE

\* (mutant) the tables are written only when no client failed
ShouldWrite_no_errors(acc) == acc.all_rates.keys # << >> /\ acc.errors = << >>

\* "if all_rates:" -- a dict is true when it is not empty
ShouldWrite(acc) == acc.all_rates.keys # << >>

\* (mutant) the source argument does not restrict the clients
clients_to_run_all(source) == Clients

\* clients_to_run: the one named client when a source is given, else all
clients_to_run(source) == IF source # "" THEN <<source>> ELSE Clients

\* RatesUpdater.run_update(source): the tables it leaves and what it returns
run_update(source, fetch, R, H, now) ==
    IF source # "" /\ source \notin Range(Clients)
    THEN [raised |-> "ValueError", results |-> << >>, errors |-> << >>, invoked |-> << >>,
          rates |-> R, history |-> H]
    ELSE LET acc == FetchLoop(clients_to_run(source), 1, fetch, LoopStart)
             write == acc.raised = "ok" /\ ShouldWrite(acc)
         IN  [raised  |-> acc.raised,
              results |-> IF acc.raised = "ok" THEN acc.results ELSE << >>,
              errors  |-> IF acc.raised = "ok" THEN acc.errors ELSE << >>,
              invoked |-> acc.invoked,
              rates   |-> IF write
                          THEN update_rates_snapshot(R, acc.all_rates.map, acc.all_sources, now)
                          ELSE R,
              history |-> IF write THEN SaveAll(H, acc.all_rates.keys, 1, acc, now) ELSE H]

----------------------------------------------------------------------------
(* core.usecases: get_rate *)

Fraction(n, d) == [num |-> n, den |-> d]

get_rate(from_currency, to_currency, R) ==
    LET pair == PairKey(from_currency, to_currency)
        rev  == PairKey(to_currency, from_currency)
        none == [err |-> "ok", rate |-> Fraction(0, 1), updated_at |-> NoRefresh]
    IN  IF ~get_currency(from_currency) \/ ~get_currency(to_currency)
        THEN [none EXCEPT !.err = "CurrencyNotFoundError"]
        ELSE IF R.last_refresh = NoRefresh \/ R.last_refresh[1] + RATES_TTL_SECONDS < localnow
        THEN [none EXCEPT !.err = "ApiRequestError"]
        ELSE IF pair \notin DOMAIN R.pairs /\ rev \notin DOMAIN R.pairs
        THEN [none EXCEPT !.err = "RateNotFoundError"]
        ELSE IF (IF pair \in DOMAIN R.pairs THEN R.pairs[pair].rate ELSE R.pairs[rev].rate) = 0
        THEN [none EXCEPT !.err = "ZeroDivisionError"]    \* 1 / rate
        ELSE IF pair \in DOMAIN R.pairs
        THEN [err |-> "ok", rate |-> Fraction(R.pairs[pair].rate, 1),
              updated_at |-> <<R.pairs[pair].updated_at>>]
        ELSE [err |-> "ok", rate |-> Fraction(1, R.pairs[rev].rate),
              updated_at |-> <<R.pairs[rev].updated_at>>]

----------------------------------------------------------------------------
(* core.models: Wallet and Portfolio *)

\* The parameters Wallet.__init__ takes besides self
WalletInitParams == {"currency_code", "balance"}

\* What Portfolio defines: its properties and methods
PortfolioAttrs == {"user_id", "wallets", "add_currency", "get_wallet", "get_total_value"}

Raised(kind, balance) == [raised |-> kind, balance |-> balance]

\* Wallet.deposit(amount) on a wallet holding balance
WalletDeposit(balance, amount) ==
    IF amount <= 0 THEN Raised("ValueError", balance)
    ELSE IF balance + amount < 0 THEN Raised("ValueError", balance)
    ELSE Raised("ok", balance + amount)

\* (mutant) withdraw without the funds check
WalletWithdraw_unchecked(balance, amount) ==
    IF amount <= 0 THEN Raised("ValueError", balance)
    ELSE Raised("ok", balance - amount)

\* Wallet.withdraw(amount) on a wallet holding balance
WalletWithdraw(balance, amount) ==
    IF amount <= 0 THEN Raised("ValueError", balance)
    ELSE IF amount > balance THEN Raised("ValueError", balance)
    ELSE IF balance - amount < 0 THEN Raised("ValueError", balance)
    ELSE Raised("ok", balance - amount)

----------------------------------------------------------------------------
(* core.utils: credentials *)

hash_password(password, salt) == <<password, salt>>

verify_password(password, salt, hashed_password) == hashed_password = hash_password(password, salt)

----------------------------------------------------------------------------
(* core.usecases: users, session, portfolios *)

\* The names bound in the module core.usecases (its imports and definitions)
UsecasesGlobals ==
    {"get_currency", "CurrencyNotFoundError", "RateNotFoundError", "ApiRequestError",
     "User", "Portfolio", "Wallet", "hash_password", "verify_password", "log_action",
     "db_manager", "settings", "RatesUpdater", "datetime", "timedelta", "PrettyTable"}

\* raise Name(...): the exception that leaves the statement
RaiseNamed(name) == IF name \in UsecasesGlobals THEN name ELSE "NameError"

NoExc == << >>

\* next((p for p in table if p['user_id'] == user_id), None): its index, 0 for None
FirstIndex(table, user_id) ==
    IF \E i \in 1..Len(table) : table[i].user_id = user_id
    THEN CHOOSE i \in 1..Len(table) :
            /\ table[i].user_id = user_id
            /\ \A j \in 1..(i - 1) : table[j].user_id # user_id
    ELSE 0

MaxId(table) == CHOOSE m \in {table[i].user_id : i \in 1..Len(table)} :
                    \A i \in 1..Len(table) : table[i].user_id <= m

register(username, password, salt, U, P) ==
    IF Len(password) < 4 THEN [raised |-> "ValueError", users |-> U, portfolios |-> P]
    ELSE IF \E i \in 1..Len(U) : U[i].username = username
    THEN [raised |-> "ValueError", users |-> U, portfolios |-> P]
    ELSE LET user_id == IF U # << >> THEN MaxId(U) + 1 ELSE 1
         IN  [raised     |-> "ok",
              users      |-> Append(U, [user_id |-> user_id, username |-> username,
                                        hashed_password |-> hash_password(password, salt),
                                        salt |-> salt]),
              portfolios |-> Append(P, [user_id |-> user_id, wallets |-> << >>])]

login(username, password, U, session) ==
    LET found == {i \in 1..Len(U) : U[i].username = username}
        first == IF found = {} THEN 0 ELSE CHOOSE i \in found : \A j \in found : i <= j
    IN  IF first = 0 \/ ~verify_password(password, U[first].salt, U[first].hashed_password)
        THEN [raised |-> "ValueError", current_user |-> session]
        ELSE [raised |-> "ok", current_user |-> U[first].user_id]

\* _load_portfolio(user): the wallets it builds (code -> balance), or what it raises.
\* Wallet(currency=..., balance=...) is a call with these keywords.
WalletCallKeywords == {"currency", "balance"}

_load_portfolio(user_id, P) ==
    LET i == FirstIndex(P, user_id)
        stored == IF i = 0 THEN << >> ELSE P[i].wallets
        known == {code \in DOMAIN stored : get_currency(code)}
    IN  IF known # {} /\ ~(WalletCallKeywords \subseteq WalletInitParams)
        THEN [raised |-> "TypeError", wallets |-> << >>]
        ELSE [raised |-> "ok", wallets |-> [code \in known |-> stored[code]]]

_save_portfolio(P, user_id, wallets) ==
    LET i == FirstIndex(P, user_id)
    IN  IF i # 0 THEN [P EXCEPT ![i].wallets = wallets]
        ELSE Append(P, [user_id |-> user_id, wallets |-> wallets])

\* f with f[code] set to balance, code added when absent
Put(f, code, balance) == [c \in DOMAIN f \cup {code} |-> IF c = code THEN balance ELSE f[c]]

Fail(kind, P) == [raised |-> kind, exc |-> NoExc, portfolios |-> P]

\* (mutant) the wallet is created when absent and the portfolio is written
\* over the first entry of the table, whoever owns it
CreditAndSave_first_entry(W, code, amount, user_id, P) ==
    LET held == IF code \in DOMAIN W THEN W[code] ELSE 0
        d == WalletDeposit(held, amount)
    IN  IF d.raised # "ok" THEN Fail(d.raised, P)
        ELSE [raised |-> "ok", exc |-> NoExc,
              portfolios |-> [P EXCEPT ![1].wallets = Put(W, code, d.balance)]]

\* portfolio.get_wallet(code) if code in portfolio.wallets else portfolio.add_wallet(code),
\* then wallet.deposit(amount) and _save_portfolio(portfolio)
CreditAndSave(W, code, amount, user_id, P) ==
    IF code \notin DOMAIN W /\ "add_wallet" \notin PortfolioAttrs THEN Fail("AttributeError", P)
    ELSE LET held == IF code \in DOMAIN W THEN W[code] ELSE 0
             d == WalletDeposit(held, amount)
         IN  IF d.raised # "ok" THEN Fail(d.raised, P)
             ELSE [raised |-> "ok", exc |-> NoExc,
                   portfolios |-> _save_portfolio(P, user_id, Put(W, code, d.balance))]

\* buy, from "if currency_to_buy.code == base_currency_code" on: W is the loaded
\* portfolio's wallets, P the stored table
settle(currency, amount, session, W, P, R) ==
    LET base == DEFAULT_BASE_CURRENCY
        pair_key == PairKey(currency, base)
    IN  IF currency = base THEN CreditAndSave(W, base, amount, session, P)
        ELSE IF pair_key \notin DOMAIN R.pairs THEN Fail("RateNotFoundError", P)
        ELSE LET cost == amount * R.pairs[pair_key].rate
             IN  IF base \notin DOMAIN W
                 THEN [raised |-> RaiseNamed("InsufficientFundsError"),
                       exc |-> IF RaiseNamed("InsufficientFundsError") = "InsufficientFundsError"
                               THEN [code |-> base, available |-> 0, required |-> cost]
                               ELSE NoExc,
                       portfolios |-> P]
                 ELSE LET w == WalletWithdraw(W[base], cost)
                      IN  IF w.raised # "ok" THEN Fail(w.raised, P)
                          ELSE CreditAndSave(Put(W, base, w.balance), currency, amount, session, P)

\* (mutant) the portfolio is saved as soon as it is loaded, before the trade is settled
buy_save_early(currency, amount, session, P, R) ==
    IF amount <= 0 THEN Fail("ValueError", P)
    ELSE IF session = 0 THEN Fail("PermissionError", P)
    ELSE IF ~get_currency(currency) THEN Fail("CurrencyNotFoundError", P)
    ELSE LET loaded == _load_portfolio(session, P)
         IN  IF loaded.raised # "ok" THEN Fail(loaded.raised, P)
             ELSE settle(currency, amount, session, loaded.wallets,
                         _save_portfolio(P, session, loaded.wallets), R)

\* (mutant) buy without the check of the session: the user is None when the
\* portfolio is loaded
buy_no_session(currency, amount, session, P, R) ==
    IF amount <= 0 THEN Fail("ValueError", P)
    ELSE IF ~get_currency(currency) THEN Fail("CurrencyNotFoundError", P)
    ELSE IF session = 0 THEN Fail("AttributeError", P)
    ELSE LET loaded == _load_portfolio(session, P)
         IN  IF loaded.raised # "ok" THEN Fail(loaded.raised, P)
             ELSE settle(currency, amount, session, loaded.wallets, P, R)

buy(currency, amount, session, P, R) ==
    IF amount <= 0 THEN Fail("ValueError", P)
    ELSE IF session = 0 THEN Fail("PermissionError", P)
    ELSE IF ~get_currency(currency) THEN Fail("CurrencyNotFoundError", P)
    ELSE LET loaded == _load_portfolio(session, P)
         IN  IF loaded.raised # "ok" THEN Fail(loaded.raised, P)
             ELSE settle(currency, amount, session, loaded.wallets, P, R)

\* (mutant) sell that checks the amount after the session and the portfolio
sell_load_first(currency, amount, session, P) ==
    IF session = 0 THEN Fail("PermissionError", P)
    ELSE LET loaded == _load_portfolio(session, P)
             W == loaded.wallets
         IN  IF loaded.raised # "ok" THEN Fail(loaded.raised, P)
             ELSE IF amount <= 0 THEN Fail("ValueError", P)
             ELSE IF currency \notin DOMAIN W THEN Fail("ValueError", P)
             ELSE LET w == WalletWithdraw(W[currency], amount)
                  IN  IF w.raised # "ok" THEN Fail(w.raised, P)
                      ELSE [raised |-> "ok", exc |-> NoExc,
                            portfolios |-> _save_portfolio(P, session, Put(W, currency, w.balance))]

sell(currency, amount, session, P) ==
    IF amount <= 0 THEN Fail("ValueError", P)
    ELSE IF session = 0 THEN Fail("PermissionError", P)
    ELSE LET loaded == _load_portfolio(session, P)
             W == loaded.wallets
         IN  IF loaded.raised # "ok" THEN Fail(loaded.raised, P)
             ELSE IF currency \notin DOMAIN W THEN Fail("ValueError", P)
             ELSE LET w == WalletWithdraw(W[currency], amount)
                  IN  IF w.raised # "ok" THEN Fail(w.raised, P)
                      ELSE [raised |-> "ok", exc |-> NoExc,
                            portfolios |-> _save_portfolio(P, session, Put(W, currency, w.balance))]

\* The sum show_portfolio prints: balance * rate over the wallets whose rate
\* against the base is stored and not zero ("if rate")
RECURSIVE TotalValue(_, _, _, _)
TotalValue(W, codes, base_code, R) ==
    IF codes = {} THEN 0
    ELSE LET code == CHOOSE c \in codes : TRUE
             rate == IF code = base_code THEN 1
                     ELSE IF PairKey(code, base_code) \in DOMAIN R.pairs
                     THEN R.pairs[PairKey(code, base_code)].rate
                     ELSE 0
         IN  W[code] * rate + TotalValue(W, codes \ {code}, base_code, R)

\* show_portfolio(base): base is "" when the argument is left out
show_portfolio(base, session, P, R) ==
    LET base_code == IF base = "" THEN DEFAULT_BASE_CURRENCY ELSE base
        failed(kind) == [raised |-> kind, empty |-> FALSE, total |-> 0]
    IN  IF session = 0 THEN failed("PermissionError")
        ELSE IF ~get_currency(base_code) THEN failed("CurrencyNotFoundError")
        ELSE LET loaded == _load_portfolio(session, P)
             IN  IF loaded.raised # "ok" THEN failed(loaded.raised)
                 ELSE IF loaded.wallets = << >>
                 THEN [raised |-> "ok", empty |-> TRUE, total |-> 0]
                 ELSE [raised |-> "ok", empty |-> FALSE,
                       total |-> TotalValue(loaded.wallets, DOMAIN loaded.wallets, base_code, R)]

----------------------------------------------------------------------------
(* parser_service.api_clients: the shipped clients over what the service   *)
(* answers                                                                 *)

\* parser_config: the tickers of the model, in the order of the configuration
BASE_CURRENCY == "USD"
CRYPTO_TICKERS == << "BTC", "ETH" >>
CRYPTO_ID_MAP == [ticker \in {"BTC", "ETH"} |-> IF ticker = "BTC" THEN "bitcoin" ELSE "ethereum"]
FIAT_CURRENCIES == << "EUR", "RUB" >>

\* JSON values as response.json() builds them: the type, and the number, the
\* string or the members the value holds
JNull == [s |-> "", f |-> << >>, n |-> 0, t |-> "null"]
JNum(n) == [s |-> "", f |-> << >>, n |-> n, t |-> "num"]
JStr(str) == [s |-> str, f |-> << >>, n |-> 0, t |-> "str"]
JList == [s |-> "", f |-> << >>, n |-> 0, t |-> "list"]           \* the empty list
JObj(f) == [s |-> "", f |-> f, n |-> 0, t |-> "obj"]

\* What the external call gives: requests.get raising, raise_for_status
\* raising, response.json() raising, or the decoded body
Answer(data) == [data |-> data, net |-> "ok"]
NoAnswer(kind) == [data |-> JNull, net |-> kind]

\* A step of the parsing: a value, nothing (the key is skipped), or an exception
Got(val) == [exc |-> "ok", val |-> val]
Skip == [exc |-> "skip", val |-> 0]
Exc(kind) == [exc |-> kind, val |-> 0]

\* float(x)
PyFloat(x) ==
    CASE x.t = "num" -> Got(x.n)
      [] x.t = "str" -> Exc("ValueError")       \* the strings of the model hold no number
      [] OTHER       -> Exc("TypeError")

\* "if coingecko_id in data: rate = data[coingecko_id][base]; float(rate)"
CoinItem(data, coingecko_id) ==
    CASE data.t = "obj" ->
            IF coingecko_id \notin DOMAIN data.f THEN Skip
            ELSE IF data.f[coingecko_id].t # "obj" THEN Exc("TypeError")
            ELSE IF "usd" \notin DOMAIN data.f[coingecko_id].f THEN Exc("KeyError")
            ELSE PyFloat(data.f[coingecko_id].f["usd"])
      [] data.t = "list" -> Skip
      [] OTHER -> Exc("TypeError")               \* argument of type ... is not iterable

\* "if ticker in conversion_rates: float(conversion_rates[ticker])"
FiatItem(conversion_rates, ticker) ==
    CASE conversion_rates.t = "obj" ->
            IF ticker \notin DOMAIN conversion_rates.f THEN Skip
            ELSE PyFloat(conversion_rates.f[ticker])
      [] conversion_rates.t = "list" -> Skip
      [] OTHER -> Exc("TypeError")

\* What leaves fetch_rates when a statement of its try block raises kind:
\* "except RequestException" and "except (KeyError, ValueError)" raise
\* ApiRequestError, anything else passes through
Leaves(kind) ==
    IF kind \in {"ConnectionError", "HTTPError", "JSONDecodeError", "KeyError", "ValueError",
                 "ApiRequestError"}
    THEN FetchApiError
    ELSE [rates |-> << >>, kind |-> kind]

RECURSIVE CoinLoop(_, _, _)
CoinLoop(data, i, acc) ==
    IF i > Len(CRYPTO_TICKERS) THEN FetchOk(acc)
    ELSE LET item == CoinItem(data, CRYPTO_ID_MAP[CRYPTO_TICKERS[i]])
         IN  CASE item.exc = "skip" -> CoinLoop(data, i + 1, acc)
               [] item.exc = "ok" ->
                    CoinLoop(data, i + 1, Put(acc, PairKey(CRYPTO_TICKERS[i], BASE_CURRENCY), item.val))
               [] OTHER -> Leaves(item.exc)

RECURSIVE FiatLoop(_, _, _)
FiatLoop(conversion_rates, i, acc) ==
    IF i > Len(FIAT_CURRENCIES) THEN FetchOk(acc)
    ELSE LET item == FiatItem(conversion_rates, FIAT_CURRENCIES[i])
         IN  CASE item.exc = "skip" -> FiatLoop(conversion_rates, i + 1, acc)
               [] item.exc = "ok" ->
                    FiatLoop(conversion_rates, i + 1,
                             Put(acc, PairKey(FIAT_CURRENCIES[i], BASE_CURRENCY), item.val))
               [] OTHER -> Leaves(item.exc)

\* CoinGeckoClient.fetch_rates
CoinGeckoClient_fetch_rates(response) ==
    IF response.net # "ok" THEN Leaves(response.net)
    ELSE CoinLoop(response.data, 1, << >>)

\* ExchangeRateApiClient.fetch_rates; api_key is EXCHANGERATE_API_KEY being set
ExchangeRateApiClient_fetch_rates(api_key, response) ==
    IF ~api_key THEN FetchApiError
    ELSE IF response.net # "ok" THEN Leaves(response.net)
    ELSE IF response.data.t # "obj" THEN Leaves("AttributeError")       \* data.get
    ELSE IF "result" \notin DOMAIN response.data.f
            \/ response.data.f["result"] # JStr("success") THEN Leaves("ApiRequestError")
    ELSE FiatLoop(IF "conversion_rates" \in DOMAIN response.data.f
                  THEN response.data.f["conversion_rates"] ELSE JObj(<< >>),
                  1, << >>)

\* fetch_rates of the shipped client registered under name
fetch_rates(name, api_key, response) ==
    IF name = "coingecko" THEN CoinGeckoClient_fetch_rates(response)
    ELSE ExchangeRateApiClient_fetch_rates(api_key, response)

\* What a service may put where a rate belongs: numbers (negative, zero,
\* positive), null, a string that holds no number
RateValues == {JNum(0 - 1), JNum(0), JNum(2), JNull, JStr("abc")}

\* What the external call fails with
NetFailures == {NoAnswer("ConnectionError"), NoAnswer("HTTPError"), NoAnswer("JSONDecodeError")}

\* A coin's entry: an object with or without the base price, or something else
CoinEntries == {JObj([k \in {"usd"} |-> r]) : r \in RateValues} \cup {JObj(<< >>), JNull, JNum(1)}

CoinBodies ==
    {JObj(f) : f \in UNION {[S -> CoinEntries] : S \in SUBSET {"bitcoin", "ethereum"}}}
    \cup {JNull, JList, JNum(1)}

FiatTables ==
    {JObj(f) : f \in UNION {[S -> RateValues] : S \in SUBSET {"EUR", "RUB"}}} \cup {JNull, JList}

FiatBodies ==
    {JObj([k \in {"result", "conversion_rates"} |->
                IF k = "result" THEN JStr("success") ELSE table]) : table \in FiatTables}
    \cup {JObj([k \in {"result"} |-> JStr(r)]) : r \in {"success", "error"}}
    \cup {JObj(<< >>), JNull, JList}

Responses(name) ==
    NetFailures \cup {Answer(data) : data \in IF name = "coingecko" THEN CoinBodies ELSE FiatBodies}

\* The answers of the documented shape whose rates are all numbers, and one
\* failure of the call
NumericResponses(name) ==
    {NoAnswer("ConnectionError")}
    \cup {response \in Responses(name) :
            /\ response.net = "ok"
            /\ response.data.t = "obj"
            /\ IF name = "coingecko"
               THEN \A id \in DOMAIN response.data.f :
                        /\ response.data.f[id].t = "obj"
                        /\ DOMAIN response.data.f[id].f = {"usd"}
                        /\ response.data.f[id].f["usd"].t = "num"
               ELSE /\ DOMAIN response.data.f = {"result", "conversion_rates"}
                    /\ response.data.f["conversion_rates"].t = "obj"
                    /\ \A ticker \in DOMAIN response.data.f["conversion_rates"].f :
                            response.data.f["conversion_rates"].f[ticker].t = "num"}

\* What the clients of a run with this source give when the named one gets
\* this answer (the API key is configured)
WireFetch(source, response) ==
    [name \in Range(Clients) |->
        IF name = source THEN fetch_rates(name, TRUE, response) ELSE Unselected(name)]

----------------------------------------------------------------------------
(* Actions *)

Usernames == {"alice", "bob"}
Passwords == {"abc", "pass"}
Salts == {"s1"}
RateCodes == {"USD", "BTC"}
TradeCodes == {"USD", "BTC", "GBP"}
Amounts == {0 - 1, 0, 1, 2}
Bases == {"", "BTC", "GBP"}

\* The outcomes of the shipped clients: each returns only its own pairs.
ShippedFetches(source) ==
    {fetch \in Fetches(source) :
        \A name \in Range(Clients) : DOMAIN fetch[name].rates \subseteq ClientPairs(name)}

Tick(d) ==
    /\ clock + d <= MaxTime
    /\ clock' = clock + d
    /\ ret' = [op |-> "tick"]
    /\ UNCHANGED <<users, portfolios, rates, history, current_user, utcoffset, wallet>>

RunUpdate(source, fetch) ==
    /\ Len(history) < MaxHistory
    /\ LET r == run_update(source, fetch, rates, history, utcnow)
       IN  /\ rates' = r.rates
           /\ history' = r.history
           /\ ret' = [op |-> "run_update", source |-> source, fetch |-> fetch, err |-> r.raised,
                      results |-> r.results, errors |-> r.errors, invoked |-> r.invoked]
    /\ UNCHANGED <<users, portfolios, current_user, clock, utcoffset, wallet>>

GetRate(from, to) ==
    /\ LET r == get_rate(from, to, rates)
       IN  ret' = [op |-> "get_rate", from |-> from, to |-> to, err |-> r.err,
                   rate |-> r.rate, updated_at |-> r.updated_at]
    /\ UNCHANGED <<users, portfolios, rates, history, current_user, clock, utcoffset, wallet>>

Register(username, password, salt) ==
    /\ Len(users) < MaxUsers
    /\ LET r == register(username, password, salt, users, portfolios)
       IN  /\ users' = r.users
           /\ portfolios' = r.portfolios
           /\ ret' = [op |-> "register", username |-> username, err |-> r.raised]
    /\ UNCHANGED <<rates, history, current_user, clock, utcoffset, wallet>>

Login(username, password) ==
    /\ LET r == login(username, password, users, current_user)
       IN  /\ current_user' = r.current_user
           /\ ret' = [op |-> "login", username |-> username, err |-> r.raised]
    /\ UNCHANGED <<users, portfolios, rates, history, clock, utcoffset, wallet>>

Buy(currency, amount) ==
    /\ LET r == buy(currency, amount, current_user, portfolios, rates)
       IN  /\ portfolios' = r.portfolios
           /\ ret' = [op |-> "buy", currency |-> currency, amount |-> amount,
                      err |-> r.raised, exc |-> r.exc]
    /\ UNCHANGED <<users, rates, history, current_user, clock, utcoffset, wallet>>

Sell(currency, amount) ==
    /\ LET r == sell(currency, amount, current_user, portfolios)
       IN  /\ portfolios' = r.portfolios
           /\ ret' = [op |-> "sell", currency |-> currency, amount |-> amount,
                      err |-> r.raised, exc |-> r.exc]
    /\ UNCHANGED <<users, rates, history, current_user, clock, utcoffset, wallet>>

ShowPortfolio(base) ==
    /\ LET r == show_portfolio(base, current_user, portfolios, rates)
       IN  ret' = [op |-> "show_portfolio", base |-> base, err |-> r.raised,
                   empty |-> r.empty, total |-> r.total]
    /\ UNCHANGED <<users, portfolios, rates, history, current_user, clock, utcoffset, wallet>>

\* A caller of core.usecases holding the Portfolio of a stored user saves it
\* and loads it again: _save_portfolio(portfolio), then _load_portfolio(user)
SaveThenLoad(user_id, wallets) ==
    /\ \E i \in 1..Len(users) : users[i].user_id = user_id
    /\ LET saved == _save_portfolio(portfolios, user_id, wallets)
           loaded == _load_portfolio(user_id, saved)
       IN  /\ portfolios' = saved
           /\ ret' = [op |-> "save_load", user_id |-> user_id, wallets |-> wallets,
                      err |-> loaded.raised, loaded |-> loaded.wallets]
    /\ UNCHANGED <<users, rates, history, current_user, clock, utcoffset, wallet>>

\* A caller of core.models holding a Wallet calls its deposit and withdraw
Deposit(amount) ==
    /\ wallet < MaxBalance
    /\ LET r == WalletDeposit(wallet, amount)
       IN  /\ wallet' = r.balance
           /\ ret' = [op |-> "deposit", amount |-> amount, err |-> r.raised, before |-> wallet]
    /\ UNCHANGED <<users, portfolios, rates, history, current_user, clock, utcoffset>>

Withdraw(amount) ==
    /\ LET r == WalletWithdraw(wallet, amount)
       IN  /\ wallet' = r.balance
           /\ ret' = [op |-> "withdraw", amount |-> amount, err |-> r.raised, before |-> wallet]
    /\ UNCHANGED <<users, portfolios, rates, history, current_user, clock, utcoffset>>

\* A caller of parser_service.api_clients calls a client's fetch_rates
FetchRates(name, api_key, response) ==
    /\ LET r == fetch_rates(name, api_key, response)
       IN  ret' = [op |-> "fetch_rates", client |-> name, api_key |-> api_key,
                   response |-> response, err |-> r.kind, rates |-> r.rates]
    /\ UNCHANGED <<users, portfolios, rates, history, current_user, clock, utcoffset, wallet>>

----------------------------------------------------------------------------
(* The rate updater with any injected clients *)

RatesInit ==
    /\ users = << >>
    /\ portfolios = << >>
    /\ rates = EmptySnapshot
    /\ history = << >>
    /\ current_user = 0
    /\ clock = 0
    /\ utcoffset = 0
    /\ wallet = 0
    /\ ret = [op |-> "init"]

RatesNext ==
    \/ \E d \in TickSteps : Tick(d)
    \/ \E source \in SourceArgs : \E fetch \in Fetches(source) : RunUpdate(source, fetch)

SpecRates == RatesInit /\ [][RatesNext]_vars

----------------------------------------------------------------------------
(* The rate cache: the shipped clients, the clock of any host, and get_rate *)

CacheInit ==
    /\ users = << >>
    /\ portfolios = << >>
    /\ rates = EmptySnapshot
    /\ history = << >>
    /\ current_user = 0
    /\ clock = 0
    /\ utcoffset \in TzOffsets
    /\ wallet = 0
    /\ ret = [op |-> "init"]

CacheNext ==
    \/ \E d \in TickSteps : Tick(d)
    \/ \E source \in SourceArgs : \E fetch \in ShippedFetches(source) : RunUpdate(source, fetch)
    \/ \E from \in RateCodes, to \in RateCodes : GetRate(from, to)

SpecCache == CacheInit /\ [][CacheNext]_vars

----------------------------------------------------------------------------
(* The rate cache behind an updater built with supplied clients,           *)
(* RatesUpdater(clients=[...]), which may quote BTC against the base in    *)
(* either direction                                                        *)

DirectedMaps(name) ==
    {[p \in S |-> v] : S \in SUBSET {PairKey("BTC", "USD"), PairKey("USD", "BTC")},
                       v \in Quotes(name)}

SuppliedFetches ==
    {fetch \in [Range(Clients) -> UNION {{FetchOk(f) : f \in DirectedMaps(name)}
                                            \cup {FetchApiError} : name \in Range(Clients)}] :
        \A name \in Range(Clients) :
            fetch[name] \in {FetchOk(f) : f \in DirectedMaps(name)} \cup {FetchApiError}}

SuppliedNext ==
    \/ \E d \in TickSteps : Tick(d)
    \/ \E fetch \in SuppliedFetches : RunUpdate("", fetch)
    \/ \E from \in RateCodes, to \in RateCodes : GetRate(from, to)

SpecSupplied == RatesInit /\ [][SuppliedNext]_vars

----------------------------------------------------------------------------
(* The shipped clients over the answers of their services *)

ClientsNext ==
    \E name \in Range(Clients), api_key \in BOOLEAN :
        \E response \in Responses(name) : FetchRates(name, api_key, response)

SpecClients == RatesInit /\ [][ClientsNext]_vars

----------------------------------------------------------------------------
(* The updater run for one shipped client at a time over the numbers its   *)
(* service answers, and get_rate                                           *)

WireNext ==
    \/ \E source \in Range(Clients) :
            \E response \in NumericResponses(source) : RunUpdate(source, WireFetch(source, response))
    \/ \E from \in RateCodes, to \in RateCodes : GetRate(from, to)

SpecWire == RatesInit /\ [][WireNext]_vars

----------------------------------------------------------------------------
(* Trading: the tables found on disk, one refresh of the rates at most *)

\* The wallets of the portfolio on disk when the process starts
InitWallets ==
    { << >>,
      [c \in {"USD"} |-> 6],
      [c \in {"USD"} |-> 1],
      [c \in {"USD", "BTC"} |-> IF c = "USD" THEN 6 ELSE 1],
      [c \in {"BTC"} |-> 2],
      [c \in {"GBP"} |-> 5] }

\* What an updater built with a client that prices the base currency in BTC
\* gets from its clients
ReversedFetches ==
    {[name \in Range(Clients) |->
        IF name = Clients[1] THEN FetchOk([p \in ReversedKeys |-> 2]) ELSE FetchApiError]}

\* The refreshes that may have run before: none, or one at time 0, by the
\* shipped clients or by a supplied one
InitRefreshes ==
    {[rates |-> EmptySnapshot, history |-> << >>]}
    \cup {[rates   |-> run_update("", fetch, EmptySnapshot, << >>, 0).rates,
           history |-> run_update("", fetch, EmptySnapshot, << >>, 0).history] :
            fetch \in ShippedFetches("coingecko") \cup ReversedFetches}

\* The time the process runs at: that of the refresh, or after its TTL has passed
TradeClocks == {0, RATES_TTL_SECONDS + 1}

TradeInit ==
    /\ \/ /\ users = << >>
          /\ portfolios = << >>
       \/ /\ users = << [user_id |-> 1, username |-> "alice",
                         hashed_password |-> hash_password("pass", "s1"), salt |-> "s1"] >>
          /\ \E w \in InitWallets : portfolios = << [user_id |-> 1, wallets |-> w] >>
    /\ \E r \in InitRefreshes : rates = r.rates /\ history = r.history
    /\ current_user = 0
    /\ clock \in TradeClocks
    /\ utcoffset = 0
    /\ wallet = 0
    /\ ret = [op |-> "init"]

TradeNext ==
    \/ \E username \in Usernames, password \in Passwords, salt \in Salts :
            Register(username, password, salt)
    \/ \E username \in Usernames, password \in Passwords : Login(username, password)
    \/ \E currency \in TradeCodes, amount \in Amounts : Buy(currency, amount)
    \/ \E currency \in TradeCodes, amount \in Amounts : Sell(currency, amount)
    \/ \E base \in Bases : ShowPortfolio(base)
    \/ \E amount \in Amounts : Deposit(amount)
    \/ \E amount \in Amounts : Withdraw(amount)

SpecTrade == TradeInit /\ [][TradeNext]_vars

----------------------------------------------------------------------------
(* The portfolios table: users register, portfolios are saved and loaded *)

\* The wallets of a Portfolio object: any codes, registered or not
StoreWallets == {[c \in S |-> 2] : S \in SUBSET {"USD", "BTC", "GBP"}} \cup {[c \in {"USD"} |-> 0]}

StoreInit ==
    /\ TradeInit
    /\ rates = EmptySnapshot
    /\ clock = 0

StoreNext ==
    \/ \E username \in Usernames, password \in Passwords, salt \in Salts :
            Register(username, password, salt)
    \/ \E user_id \in 1..MaxUsers, wallets \in StoreWallets : SaveThenLoad(user_id, wallets)

SpecStore == StoreInit /\ [][StoreNext]_vars

----------------------------------------------------------------------------
(* The whole program *)

Init == TradeInit

Next ==
    \/ RatesNext
    \/ CacheNext
    \/ SuppliedNext
    \/ ClientsNext
    \/ WireNext
    \/ TradeNext
    \/ StoreNext

Spec == Init /\ [][Next]_vars

----------------------------------------------------------------------------
(* Properties of run_update (checked under SpecRates) *)

Succeeded(fetch, name) == fetch[name].kind = "ok"

\* The clients of a run, in the order of the run, that returned pair p
Suppliers(fetch, names, p) ==
    {i \in 1..Len(names) : Succeeded(fetch, names[i]) /\ p \in DOMAIN fetch[names[i]].rates}

LastSupplier(fetch, names, p) ==
    names[CHOOSE i \in Suppliers(fetch, names, p) : \A j \in Suppliers(fetch, names, p) : j <= i]

MergedPairs(fetch, names) == {p \in PairKeys : Suppliers(fetch, names, p) # {}}

\* The state is the one a run_update over all clients has just left, and no
\* client raised anything but ApiRequestError
AfterFullRun ==
    /\ ret.op = "run_update"
    /\ ret.source = ""
    /\ \A name \in Range(Clients) : ret.fetch[name].kind \in {"ok", "ApiRequestError"}

\* What C1 says of such a run, but for last_refresh
PartialFailureOutcome ==
    /\ ret.err = "ok"
    /\ ret.invoked = Clients
    /\ Len(ret.errors) = Cardinality({n \in Range(Clients) : ~Succeeded(ret.fetch, n)})
    /\ ret.errors = [i \in 1..Len(ret.errors) |->
                        ErrorMsg(SelectSeq(Clients, LAMBDA n : ~Succeeded(ret.fetch, n))[i])]
    /\ Len(ret.results) = Cardinality({n \in Range(Clients) : Succeeded(ret.fetch, n)})
    /\ \A i \in 1..Len(ret.results) :
            ret.results[i].source_name = SelectSeq(Clients, LAMBDA n : Succeeded(ret.fetch, n))[i]
    /\ \A p \in MergedPairs(ret.fetch, Clients) :
            /\ p \in DOMAIN rates.pairs
            /\ rates.pairs[p].updated_at = clock
            /\ \E n \in Range(Clients) :
                    /\ Succeeded(ret.fetch, n)
                    /\ p \in DOMAIN ret.fetch[n].rates
                    /\ rates.pairs[p].rate = ret.fetch[n].rates[p]

\* C1 as stated: after a run over all clients of which any subset failed with
\* ApiRequestError, every client was invoked, each failure gave one error, each
\* success one result, the returned rates are in the snapshot, and
\* last_refresh is the time of the run.
C1_AsStated ==
    AfterFullRun => (PartialFailureOutcome /\ rates.last_refresh = <<clock>>)

\* C1 (amended): as stated, with last_refresh set to the time of the run when
\* at least one client returned at least one pair.
C1_PartialFailure ==
    AfterFullRun =>
        /\ PartialFailureOutcome
        /\ (MergedPairs(ret.fetch, Clients) # {} => rates.last_refresh = <<clock>>)

\* One client failed, the other returned rates, over a snapshot of an earlier run
C1_Witness ==
    /\ AfterFullRun
    /\ Len(ret.errors) = 1
    /\ Len(ret.results) = 1
    /\ ret.results[1].rates_count > 0
    /\ rates.last_refresh = <<clock>>
    /\ \E p \in DOMAIN rates.pairs : rates.pairs[p].updated_at < clock

\* C2: a run all of whose invoked clients fail with ApiRequestError returns no
\* result and one error per client, and leaves snapshot and history as they were.
C2_AllFail ==
    [][(/\ ret'.op = "run_update"
        /\ ret'.invoked # << >>
        /\ \A i \in 1..Len(ret'.invoked) : ret'.fetch[ret'.invoked[i]].kind = "ApiRequestError")
       => (/\ ret'.err = "ok"
           /\ ret'.results = << >>
           /\ Len(ret'.errors) = Len(ret'.invoked)
           /\ \A i \in 1..Len(ret'.invoked) : ret'.errors[i] = ErrorMsg(ret'.invoked[i])
           /\ rates' = rates
           /\ history' = history)]_vars

\* Both clients failed over a snapshot and a history that an earlier run wrote
C2_Witness ==
    /\ ret.op = "run_update"
    /\ ret.invoked = Clients
    /\ \A name \in Range(Clients) : ret.fetch[name].kind = "ApiRequestError"
    /\ Len(ret.errors) = 2
    /\ history # << >>
    /\ rates.last_refresh # NoRefresh
    /\ rates.last_refresh[1] < clock

\* C9: a pair returned by several clients of one run is stored with the rate of
\* the last of them in the order of the run, its source names that client, and
\* the history record appended for the pair carries the same rate and source.
C9_LastWriteWins ==
    (ret.op = "run_update" /\ ret.err = "ok") =>
        LET merged == MergedPairs(ret.fetch, ret.invoked)
            appended == (Len(history) - Cardinality(merged) + 1)..Len(history)
        IN  \A p \in merged :
                LET n == LastSupplier(ret.fetch, ret.invoked, p)
                IN  /\ rates.pairs[p].rate = ret.fetch[n].rates[p]
                    /\ rates.pairs[p].source = n
                    /\ Cardinality({i \in appended :
                            /\ history[i].from_currency = p[1]
                            /\ history[i].to_currency = p[2]}) = 1
                    /\ \A i \in appended :
                            (history[i].from_currency = p[1] /\ history[i].to_currency = p[2])
                            => (history[i].rate = ret.fetch[n].rates[p] /\ history[i].source = n)

\* Both clients returned the same pair at different rates
C9_Witness ==
    /\ ret.op = "run_update"
    /\ ret.err = "ok"
    /\ \E p \in PairKeys :
            /\ Cardinality(Suppliers(ret.fetch, ret.invoked, p)) = 2
            /\ ret.fetch[Clients[1]].rates[p] # ret.fetch[Clients[2]].rates[p]
            /\ rates.pairs[p].source = Clients[2]

\* What C10 promises of the tables after a run
RefreshedAndOverwritten ==
    /\ rates.last_refresh = <<clock>>
    /\ \A p \in MergedPairs(ret.fetch, ret.invoked) :
            /\ p \in DOMAIN rates.pairs
            /\ rates.pairs[p] =
                  [rate       |-> ret.fetch[LastSupplier(ret.fetch, ret.invoked, p)].rates[p],
                   updated_at |-> clock,
                   source     |-> LastSupplier(ret.fetch, ret.invoked, p)]

\* C10 as stated: after a run in which at least one fetch returned, whatever
\* the number of pairs, last_refresh is the time of the run and each returned
\* pair holds the merged rate.
C10_AsStated ==
    (/\ ret.op = "run_update"
     /\ ret.err = "ok"
     /\ \E i \in 1..Len(ret.invoked) : Succeeded(ret.fetch, ret.invoked[i]))
    => RefreshedAndOverwritten

\* C10 (amended): after a run in which at least one fetch returned at least
\* one pair, last_refresh is the time of the run and each returned pair holds
\* the merged rate.
C10_RefreshOnRates ==
    (/\ ret.op = "run_update"
     /\ ret.err = "ok"
     /\ MergedPairs(ret.fetch, ret.invoked) # {})
    => RefreshedAndOverwritten

\* A later run, with one client failing, overwrote a pair an earlier run stored
C10_Witness ==
    /\ ret.op = "run_update"
    /\ ret.err = "ok"
    /\ ret.errors # << >>
    /\ MergedPairs(ret.fetch, ret.invoked) # {}
    /\ clock > 0
    /\ rates.last_refresh = <<clock>>
    /\ \E i \in 1..Len(history) : history[i].timestamp < clock

----------------------------------------------------------------------------
(* Properties of the staleness gate (checked under SpecCache) *)

\* C7: get_rate raises the stale-cache ApiRequestError exactly when
\* last_refresh is absent or the clock is past last_refresh + TTL, on any host.
C7_StaleExactlyAfterTTL ==
    ret.op = "get_rate" =>
        ((ret.err = "ApiRequestError")
            <=> (rates.last_refresh = NoRefresh
                    \/ clock > rates.last_refresh[1] + RATES_TTL_SECONDS))

\* C8: a rate that get_rate returns was read from an entry whose updated_at is
\* no older than now - TTL.  Stated for a host at UTC, where the clock of the
\* write and the clock of the read agree.
C8_NeverServesStale ==
    (ret.op = "get_rate" /\ ret.err = "ok" /\ utcoffset = 0) =>
        ret.updated_at[1] >= clock - RATES_TTL_SECONDS

----------------------------------------------------------------------------
(* Properties of buy and of the wallets (checked under SpecTrade) *)

StoredWallets(P, user_id) ==
    IF FirstIndex(P, user_id) = 0 THEN << >> ELSE P[FirstIndex(P, user_id)].wallets

Held(W, code) == IF code \in DOMAIN W THEN W[code] ELSE 0

\* The stored table with the whole trade applied: the base wallet debited by
\* amount * rate and the bought currency credited (a top-up of the base
\* currency is the credit alone)
Settled(P, user_id, currency, amount, R) ==
    LET W == StoredWallets(P, user_id)
        base == DEFAULT_BASE_CURRENCY
    IN  IF currency = base
        THEN _save_portfolio(P, user_id, Put(W, base, Held(W, base) + amount))
        ELSE LET cost == amount * R.pairs[PairKey(currency, base)].rate
             IN  _save_portfolio(P, user_id,
                    Put(Put(W, base, Held(W, base) - cost), currency, Held(W, currency) + amount))

\* C3: a buy, failed or not, leaves the stored portfolios as they were or with
\* the whole trade applied.
C3_BuyAtomic ==
    [][ret'.op = "buy" =>
        \/ portfolios' = portfolios
        \/ /\ ret'.err = "ok"
           /\ portfolios' = Settled(portfolios, current_user, ret'.currency, ret'.amount, rates)]_vars

\* A buy by a logged-in user with stored wallets failed after validation
C3_Witness ==
    /\ ret.op = "buy"
    /\ ret.err \in {"TypeError", "NameError", "AttributeError"}
    /\ current_user # 0
    /\ StoredWallets(portfolios, current_user) # << >>

\* The case of C4: a logged-in user buys a registered currency other than the
\* base at a stored rate, and the stored base balance covers the cost
FundedBuy(currency, amount) ==
    /\ current_user # 0
    /\ get_currency(currency)
    /\ currency # DEFAULT_BASE_CURRENCY
    /\ amount > 0
    /\ PairKey(currency, DEFAULT_BASE_CURRENCY) \in DOMAIN rates.pairs
    /\ DEFAULT_BASE_CURRENCY \in DOMAIN StoredWallets(portfolios, current_user)
    /\ StoredWallets(portfolios, current_user)[DEFAULT_BASE_CURRENCY]
            >= amount * rates.pairs[PairKey(currency, DEFAULT_BASE_CURRENCY)].rate

\* C4: a funded buy succeeds and stores base - amount * rate and
\* currency + amount, the other wallets as they were.
C4_BuySettles ==
    [][(ret'.op = "buy" /\ FundedBuy(ret'.currency, ret'.amount)) =>
        /\ ret'.err = "ok"
        /\ portfolios' = Settled(portfolios, current_user, ret'.currency, ret'.amount, rates)]_vars

\* The case of C5: as FundedBuy, but the base wallet is absent or holds less
\* than the cost
UnfundedBuy(currency, amount) ==
    /\ current_user # 0
    /\ get_currency(currency)
    /\ currency # DEFAULT_BASE_CURRENCY
    /\ amount > 0
    /\ PairKey(currency, DEFAULT_BASE_CURRENCY) \in DOMAIN rates.pairs
    /\ Held(StoredWallets(portfolios, current_user), DEFAULT_BASE_CURRENCY)
            < amount * rates.pairs[PairKey(currency, DEFAULT_BASE_CURRENCY)].rate

\* C5: an unfunded buy raises InsufficientFundsError with available (0 for an
\* absent wallet) and required = cost, and leaves the stored portfolios alone.
C5_InsufficientFunds ==
    [][(ret'.op = "buy" /\ UnfundedBuy(ret'.currency, ret'.amount)) =>
        /\ ret'.err = "InsufficientFundsError"
        /\ ret'.exc = [code      |-> DEFAULT_BASE_CURRENCY,
                       available |-> Held(StoredWallets(portfolios, current_user),
                                          DEFAULT_BASE_CURRENCY),
                       required  |-> ret'.amount
                                        * rates.pairs[PairKey(ret'.currency,
                                                              DEFAULT_BASE_CURRENCY)].rate]
        /\ portfolios' = portfolios]_vars

\* C6: every balance, of the Wallet object and of the stored portfolios, is
\* >= 0, and a deposit or withdraw that is rejected leaves the balance as it was.
C6_BalancesNonNegative ==
    /\ wallet >= 0
    /\ \A i \in 1..Len(portfolios) : \A c \in DOMAIN portfolios[i].wallets :
            portfolios[i].wallets[c] >= 0
    /\ (ret.op \in {"deposit", "withdraw"} /\ ret.err # "ok") => wallet = ret.before
    /\ (ret.op = "deposit" /\ ret.err = "ok") => wallet = ret.before + ret.amount
    /\ (ret.op = "withdraw" /\ ret.err = "ok") => wallet = ret.before - ret.amount

\* A withdraw of more than the wallet holds was rejected, after trades were tried
C6_Witness ==
    /\ ret.op = "withdraw"
    /\ ret.err = "ValueError"
    /\ ret.amount > wallet
    /\ wallet > 0
    /\ current_user # 0
    /\ \E i \in 1..Len(portfolios) : portfolios[i].wallets # << >>

----------------------------------------------------------------------------
(* Properties of the history and of the source filter (checked under SpecRates) *)

IsPrefix(s, t) == Len(s) <= Len(t) /\ \A i \in 1..Len(s) : t[i] = s[i]

\* C11: every step leaves the old history as a prefix of the new one, and a
\* run_update in which at least one fetch returned appends exactly one record
\* for each distinct merged pair key.
C11_HistoryAppendOnly ==
    [][/\ IsPrefix(history, history')
       /\ (/\ ret'.op = "run_update"
           /\ ret'.err = "ok"
           /\ \E i \in 1..Len(ret'.invoked) : Succeeded(ret'.fetch, ret'.invoked[i]))
          => LET merged == MergedPairs(ret'.fetch, ret'.invoked)
                 appended == (Len(history) + 1)..Len(history')
             IN  /\ Len(history') = Len(history) + Cardinality(merged)
                 /\ \A p \in merged :
                        Cardinality({i \in appended :
                            /\ history'[i].from_currency = p[1]
                            /\ history'[i].to_currency = p[2]}) = 1]_vars

\* A run appended two records behind the record of an earlier run
C11_Witness ==
    /\ ret.op = "run_update"
    /\ ret.err = "ok"
    /\ Cardinality(MergedPairs(ret.fetch, ret.invoked)) = 2
    /\ Len(history) = 3
    /\ history[1].timestamp < clock
    /\ history[2].timestamp = clock
    /\ history[3].timestamp = clock

\* C20: a run with a source name that is not registered raises before any
\* client is called and leaves snapshot and history as they were; with a
\* registered name that client alone is called, and what the run writes comes
\* from that client's mapping alone.
C20_SourceFilter ==
    [][(ret'.op = "run_update" /\ ret'.source # "") =>
        IF ret'.source \notin Range(Clients)
        THEN /\ ret'.err = "ValueError"
             /\ ret'.invoked = << >>
             /\ rates' = rates
             /\ history' = history
        ELSE /\ ret'.invoked = <<ret'.source>>
             /\ Len(ret'.results) + Len(ret'.errors) <= 1
             /\ \A i \in 1..Len(ret'.results) : ret'.results[i].source_name = ret'.source
             /\ \A p \in DOMAIN rates'.pairs :
                    \/ p \in DOMAIN rates.pairs /\ rates'.pairs[p] = rates.pairs[p]
                    \/ /\ p \in DOMAIN ret'.fetch[ret'.source].rates
                       /\ rates'.pairs[p].rate = ret'.fetch[ret'.source].rates[p]
                       /\ rates'.pairs[p].source = ret'.source
             /\ \A i \in (Len(history) + 1)..Len(history') : history'[i].source = ret'.source]_vars

\* A filtered run wrote the named client's pair, although the client left out
\* would have returned a pair too
C20_Witness ==
    /\ ret.op = "run_update"
    /\ ret.source = "coingecko"
    /\ ret.err = "ok"
    /\ ret.invoked = <<"coingecko">>
    /\ DOMAIN ret.fetch["exchangerate"].rates # {}
    /\ rates.last_refresh = <<clock>>
    /\ PairKey("BTC", "USD") \in DOMAIN rates.pairs
    /\ PairKey("EUR", "USD") \notin DOMAIN rates.pairs

----------------------------------------------------------------------------
(* Properties of the rate lookup *)

\* The snapshot is fresh: refreshed, and not longer ago than the TTL
Fresh == rates.last_refresh # NoRefresh /\ clock <= rates.last_refresh[1] + RATES_TTL_SECONDS

\* C12 (SpecCache): on a fresh snapshot, for registered A # B, get_rate(A, B)
\* returns the stored rate of A_B when it is stored, else 1 / the stored rate
\* of B_A when that is stored, else raises RateNotFoundError.
C12_LookupRule ==
    (/\ ret.op = "get_rate"
     /\ get_currency(ret.from)
     /\ get_currency(ret.to)
     /\ ret.from # ret.to
     /\ Fresh)
    => IF PairKey(ret.from, ret.to) \in DOMAIN rates.pairs
       THEN /\ ret.err = "ok"
            /\ ret.rate = Fraction(rates.pairs[PairKey(ret.from, ret.to)].rate, 1)
       ELSE IF PairKey(ret.to, ret.from) \in DOMAIN rates.pairs
       THEN /\ ret.err = "ok"
            /\ ret.rate = Fraction(1, rates.pairs[PairKey(ret.to, ret.from)].rate)
       ELSE ret.err = "RateNotFoundError"

\* The same rule on a host whose local time is UTC
LookupRuleAtUTC == utcoffset = 0 => C12_LookupRule

C14_SameCurrency ==
    (ret.op = "get_rate" /\ ret.from = ret.to /\ get_currency(ret.from))
    => (ret.err = "ok" /\ ret.rate = Fraction(1, 1))

----------------------------------------------------------------------------
(* Properties of sell and of the rate used by buy (checked under SpecTrade) *)

\* The exceptions that a mistake in the program raises
ProgrammingErrors == {"TypeError", "AttributeError", "NameError"}

\* What sell raises for an amount that is not positive
InvalidAmountKind == sell(DEFAULT_BASE_CURRENCY, 0, 0, << >>).raised

\* What Wallet.withdraw raises for an amount above the balance
UnderfundedKind == WalletWithdraw(0, 1).raised

\* The case of C15: a logged-in user sells no more than the stored wallet holds
FundedSell(currency, amount) ==
    /\ current_user # 0
    /\ amount > 0
    /\ currency \in DOMAIN StoredWallets(portfolios, current_user)
    /\ StoredWallets(portfolios, current_user)[currency] >= amount

\* C15: a sell that the stored wallet covers succeeds, lowers the stored
\* balance of that wallet by the amount and changes no other wallet (the base
\* wallet is not credited).
C15_SellDebitsOnly ==
    [][(ret'.op = "sell" /\ FundedSell(ret'.currency, ret'.amount)) =>
        /\ ret'.err = "ok"
        /\ portfolios' =
              _save_portfolio(portfolios, current_user,
                  Put(StoredWallets(portfolios, current_user), ret'.currency,
                      StoredWallets(portfolios, current_user)[ret'.currency] - ret'.amount))]_vars

\* C16: a sell of a currency for which no wallet is stored fails with an error
\* of its own kind (not the kind of an invalid amount or of missing funds, and
\* not a programming error), and leaves the stored portfolios as they were.
C16_WalletNotFound ==
    [][(/\ ret'.op = "sell"
        /\ current_user # 0
        /\ ret'.amount > 0
        /\ ret'.currency \notin DOMAIN StoredWallets(portfolios, current_user))
       => (/\ ret'.err \notin {"ok", InvalidAmountKind, UnderfundedKind}
           /\ ret'.err \notin ProgrammingErrors
           /\ portfolios' = portfolios)]_vars

\* C17: a withdraw of more than the balance raises InsufficientFundsError and
\* leaves the balance as it was; a sell of more than the stored wallet holds
\* raises InsufficientFundsError with available and required, and leaves the
\* stored portfolios as they were.
C17_WithdrawInsufficient ==
    [][/\ (ret'.op = "withdraw" /\ wallet < ret'.amount)
            => (ret'.err = "InsufficientFundsError" /\ wallet' = wallet)
       /\ (/\ ret'.op = "sell"
           /\ current_user # 0
           /\ ret'.currency \in DOMAIN StoredWallets(portfolios, current_user)
           /\ ret'.amount > StoredWallets(portfolios, current_user)[ret'.currency])
            => (/\ ret'.err = "InsufficientFundsError"
                /\ ret'.exc = [code      |-> ret'.currency,
                               available |-> StoredWallets(portfolios, current_user)[ret'.currency],
                               required  |-> ret'.amount]
                /\ portfolios' = portfolios)]_vars

\* C18: a buy of the base currency by a logged-in user, for a positive amount,
\* succeeds whatever the snapshot and the stored wallets are, and stores the
\* base balance raised by the amount, the other wallets as they were.
C18_BaseTopUp ==
    [][(/\ ret'.op = "buy"
        /\ ret'.currency = DEFAULT_BASE_CURRENCY
        /\ ret'.amount > 0
        /\ current_user # 0)
       => (/\ ret'.err = "ok"
           /\ portfolios' = Settled(portfolios, current_user, ret'.currency, ret'.amount, rates))]_vars

\* C19: a buy of a registered currency C other than the base raises
\* RateNotFoundError only when neither C_BASE nor BASE_C is stored (a stored
\* BASE_C is inverted), and then leaves the stored portfolios as they were.
C19_BuyRateRule ==
    [][(/\ ret'.op = "buy"
        /\ current_user # 0
        /\ ret'.amount > 0
        /\ get_currency(ret'.currency)
        /\ ret'.currency # DEFAULT_BASE_CURRENCY
        /\ ret'.err = "RateNotFoundError")
       => (/\ PairKey(ret'.currency, DEFAULT_BASE_CURRENCY) \notin DOMAIN rates.pairs
           /\ PairKey(DEFAULT_BASE_CURRENCY, ret'.currency) \notin DOMAIN rates.pairs
           /\ portfolios' = portfolios)]_vars

----------------------------------------------------------------------------
(* Properties of the shipped clients and of what they store (checked under *)
(* SpecWire and SpecClients)                                               *)

\* C21: every pair stored in the snapshot has rate > 0, whatever numbers the
\* services answer (0 and negative numbers included), and no read of a stored
\* rate divides by zero or returns a rate that is not positive.
C21_StoredRatesPositive ==
    /\ \A p \in DOMAIN rates.pairs : rates.pairs[p].rate > 0
    /\ ret.op = "get_rate" =>
            /\ ret.err # "ZeroDivisionError"
            /\ ret.err = "ok" => ret.rate.num > 0 /\ ret.rate.den > 0

\* C23: whatever the external call gives (transport failure, error status,
\* invalid JSON, a body, a coin entry or a rate of an unexpected type), a
\* client's fetch_rates returns a mapping or raises ApiRequestError; no other
\* exception leaves it.
C23_OnlyApiRequestError ==
    ret.op = "fetch_rates" => ret.err \in {"ok", "ApiRequestError"}

\* The rate the answer holds for a configured ticker: the number, or nothing
\* when the coin id is missing, the coin entry has no base price, or the
\* ticker is missing from the conversion table
Usable(name, data, ticker) ==
    IF name = "coingecko"
    THEN LET id == CRYPTO_ID_MAP[ticker]
         IN  IF id \in DOMAIN data.f /\ "usd" \in DOMAIN data.f[id].f
             THEN << data.f[id].f["usd"].n >> ELSE << >>
    ELSE LET table == data.f["conversion_rates"].f
         IN  IF ticker \in DOMAIN table THEN << table[ticker].n >> ELSE << >>

Tickers(name) == Range(IF name = "coingecko" THEN CRYPTO_TICKERS ELSE FIAT_CURRENCIES)

\* A successful answer of the documented shape in which every rate present is
\* a number
RatesPresentAreNumbers(name, response) ==
    /\ response.net = "ok"
    /\ response.data.t = "obj"
    /\ IF name = "coingecko"
       THEN \A id \in DOMAIN response.data.f :
                /\ response.data.f[id].t = "obj"
                /\ \A k \in DOMAIN response.data.f[id].f : response.data.f[id].f[k].t = "num"
       ELSE /\ DOMAIN response.data.f = {"result", "conversion_rates"}
            /\ response.data.f["result"] = JStr("success")
            /\ response.data.f["conversion_rates"].t = "obj"
            /\ \A ticker \in DOMAIN response.data.f["conversion_rates"].f :
                    response.data.f["conversion_rates"].f[ticker].t = "num"

\* C24: when a successful answer lacks a usable rate for a configured currency,
\* fetch_rates leaves that pair out and returns the others; the call does not
\* fail.
C24_OmitsMissingPair ==
    (/\ ret.op = "fetch_rates"
     /\ ret.client = "coingecko" \/ ret.api_key
     /\ RatesPresentAreNumbers(ret.client, ret.response))
    => /\ ret.err = "ok"
       /\ DOMAIN ret.rates = {PairKey(ticker, BASE_CURRENCY) :
                                ticker \in {c \in Tickers(ret.client) :
                                                Usable(ret.client, ret.response.data, c) # << >>}}
       /\ \A ticker \in Tickers(ret.client) :
                Usable(ret.client, ret.response.data, ticker) # << >> =>
                    ret.rates[PairKey(ticker, BASE_CURRENCY)] =
                        Usable(ret.client, ret.response.data, ticker)[1]

----------------------------------------------------------------------------
(* Properties of the checks that precede a trade (checked under SpecTrade) *)

\* C22: buy and sell with amount <= 0 fail with the invalid-amount error
\* (ValueError in the code) before the portfolio is loaded or a rate is read,
\* logged in or not, and change neither the stored portfolios nor the snapshot.
C22_AmountCheckedFirst ==
    [][(ret'.op \in {"buy", "sell"} /\ ret'.amount <= 0) =>
        /\ ret'.err = "ValueError"
        /\ portfolios' = portfolios
        /\ rates' = rates]_vars

\* A sell of a non-positive amount was rejected for the amount although the
\* logged-in user's stored wallets cannot be loaded
C22_Witness ==
    /\ ret.op = "sell"
    /\ ret.amount <= 0
    /\ ret.err = "ValueError"
    /\ current_user # 0
    /\ _load_portfolio(current_user, portfolios).raised # "ok"

----------------------------------------------------------------------------
(* Properties of a run that a client breaks, and of the pairs a run leaves *)
(* alone (checked under SpecRates)                                         *)

\* The place in the run of the first client that raises something other than
\* ApiRequestError, 0 when there is none
FirstCrash(names, fetch) ==
    LET crashed == {i \in 1..Len(names) : fetch[names[i]].kind \notin {"ok", "ApiRequestError"}}
    IN  IF crashed = {} THEN 0 ELSE CHOOSE i \in crashed : \A j \in crashed : i <= j

\* The clients a run with this source argument goes through
RunOrder(source) == IF source = "" THEN Clients ELSE << source >>

\* C25: when a client raises an exception other than ApiRequestError, the
\* exception leaves run_update, no later client is invoked, and neither the
\* snapshot nor the history is written, whatever earlier clients returned.
C25_CrashAborts ==
    [][(/\ ret'.op = "run_update"
        /\ ret'.source \in {""} \cup Range(Clients)
        /\ FirstCrash(RunOrder(ret'.source), ret'.fetch) # 0)
       => LET names == RunOrder(ret'.source)
              k == FirstCrash(names, ret'.fetch)
          IN  /\ ret'.err = ret'.fetch[names[k]].kind
              /\ ret'.invoked = SubSeq(names, 1, k)
              /\ rates' = rates
              /\ history' = history]_vars

\* A run in which the first client returned pairs and the second raised
\* something else than ApiRequestError: the exception left the run, nothing
\* is stored
C25_Witness ==
    /\ ret.op = "run_update"
    /\ ret.source = ""
    /\ ret.fetch[Clients[1]].kind = "ok"
    /\ ret.fetch[Clients[1]].rates # << >>
    /\ ret.fetch[Clients[2]].kind = "Exception"
    /\ ret.err = "Exception"
    /\ ret.invoked = Clients
    /\ rates = EmptySnapshot
    /\ history = << >>

\* The pairs of the snapshot that the clients of the run did not return are
\* there after the run as they were (rate, updated_at, source), and the run
\* adds no pair that no client returned
OtherPairsKept ==
    /\ \A p \in DOMAIN rates.pairs :
            /\ p \in DOMAIN rates'.pairs
            /\ p \notin MergedPairs(ret'.fetch, ret'.invoked) => rates'.pairs[p] = rates.pairs[p]
    /\ DOMAIN rates'.pairs \subseteq DOMAIN rates.pairs \cup MergedPairs(ret'.fetch, ret'.invoked)

\* C26 as stated: a run that returns keeps the pairs no client returned and
\* sets last_refresh to the time of the run.
C26_AsStated ==
    [][(ret'.op = "run_update" /\ ret'.err = "ok") =>
        /\ OtherPairsKept
        /\ rates'.last_refresh = <<utcnow>>]_vars

\* C26 (amended): every run keeps the pairs no client returned; a run that
\* returns and in which a client returned at least one pair sets last_refresh
\* to the time of the run, any other run leaves last_refresh as it was.
C26_OnlySuppliedPairs ==
    [][ret'.op = "run_update" =>
        /\ OtherPairsKept
        /\ rates'.last_refresh =
              IF ret'.err = "ok" /\ MergedPairs(ret'.fetch, ret'.invoked) # {}
              THEN <<utcnow>> ELSE rates.last_refresh]_vars

\* A later run stored a pair and left a pair of an earlier run, which it did
\* not return, with its old time
C26_Witness ==
    /\ ret.op = "run_update"
    /\ ret.err = "ok"
    /\ MergedPairs(ret.fetch, ret.invoked) # {}
    /\ rates.last_refresh = <<clock>>
    /\ \E p \in DOMAIN rates.pairs :
            /\ p \notin MergedPairs(ret.fetch, ret.invoked)
            /\ rates.pairs[p].updated_at < clock
    /\ \E p \in MergedPairs(ret.fetch, ret.invoked) : rates.pairs[p].updated_at = clock

----------------------------------------------------------------------------
(* Properties of buy over a stale snapshot, of the session and of the      *)
(* stored tables (checked under SpecTrade)                                 *)

\* The condition under which get_rate refuses to answer
StaleSnapshot ==
    rates.last_refresh = NoRefresh \/ rates.last_refresh[1] + RATES_TTL_SECONDS < localnow

\* C27: over a stale snapshot, a buy of a currency other than the base whose
\* pair is stored does not fail with the ApiRequestError of the stale cache,
\* and when the base wallet covers the cost it settles at the stored rate.
C27_BuyIgnoresStaleness ==
    [][(/\ ret'.op = "buy"
        /\ StaleSnapshot
        /\ current_user # 0
        /\ ret'.amount > 0
        /\ get_currency(ret'.currency)
        /\ ret'.currency # DEFAULT_BASE_CURRENCY
        /\ PairKey(ret'.currency, DEFAULT_BASE_CURRENCY) \in DOMAIN rates.pairs)
       => (/\ ret'.err # "ApiRequestError"
           /\ FundedBuy(ret'.currency, ret'.amount) =>
                /\ ret'.err = "ok"
                /\ portfolios' = Settled(portfolios, current_user, ret'.currency,
                                         ret'.amount, rates))]_vars

\* C28: with no user logged in, buy and sell of a positive amount and
\* show_portfolio for a registered base fail with PermissionError and leave
\* the users, the portfolios, the snapshot and the history as they were; a
\* login that fails leaves the current user of the session as it was.
C28_SessionRequired ==
    [][/\ (/\ current_user = 0
           /\ \/ ret'.op = "buy" /\ ret'.amount > 0 /\ get_currency(ret'.currency)
              \/ ret'.op = "sell" /\ ret'.amount > 0
              \/ /\ ret'.op = "show_portfolio"
                 /\ get_currency(IF ret'.base = "" THEN DEFAULT_BASE_CURRENCY ELSE ret'.base))
          => (/\ ret'.err = "PermissionError"
              /\ users' = users
              /\ portfolios' = portfolios
              /\ rates' = rates
              /\ history' = history)
       /\ (ret'.op = "login" /\ ret'.err # "ok") => current_user' = current_user]_vars

\* Nobody is logged in, users and wallets are stored, rates are stored, and a
\* buy of a stored pair was refused for the missing session
C28_Witness ==
    /\ ret.op = "buy"
    /\ ret.amount > 0
    /\ PairKey(ret.currency, DEFAULT_BASE_CURRENCY) \in DOMAIN rates.pairs
    /\ ret.err = "PermissionError"
    /\ current_user = 0
    /\ users # << >>
    /\ \E i \in 1..Len(portfolios) : portfolios[i].wallets # << >>

\* C29: a buy or sell by the logged-in user changes at most that user's entry
\* of the stored portfolios: the entries of the other users, the one entry
\* each user has, the users, the snapshot and the history are as they were.
C29_OnlyOwnEntry ==
    [][(ret'.op \in {"buy", "sell"} /\ current_user # 0) =>
        /\ Len(portfolios') = Len(portfolios)
        /\ \A i \in 1..Len(portfolios) :
                /\ portfolios'[i].user_id = portfolios[i].user_id
                /\ portfolios[i].user_id # current_user => portfolios'[i] = portfolios[i]
        /\ \A i \in 1..Len(users) :
                Cardinality({j \in 1..Len(portfolios') :
                                portfolios'[j].user_id = users[i].user_id}) = 1
        /\ users' = users
        /\ rates' = rates
        /\ history' = history]_vars

\* A user who is logged in traded past the checks of the arguments while
\* another user holds stored wallets
C29_Witness ==
    /\ ret.op \in {"buy", "sell"}
    /\ ret.amount > 0
    /\ ret.err \notin {"ValueError", "PermissionError", "CurrencyNotFoundError"}
    /\ current_user # 0
    /\ Len(portfolios) = 2
    /\ \E i \in 1..Len(portfolios) :
            portfolios[i].user_id # current_user /\ portfolios[i].wallets # << >>
    /\ rates.pairs # << >>

----------------------------------------------------------------------------
(* Property of the stored portfolios (checked under SpecStore) *)

\* C30: saving a portfolio whose wallets use registered codes and loading it
\* again gives the same codes with the same balances.
C30_SaveLoadIdentity ==
    (ret.op = "save_load" /\ DOMAIN ret.wallets \subseteq currency_registry) =>
        /\ ret.err = "ok"
        /\ ret.loaded = ret.wallets

----------------------------------------------------------------------------
(* Properties of the snapshot against the history, and of what a run       *)
(* returns (checked under SpecRates)                                       *)

\* C31: every pair entry of the snapshot has updated_at <= last_refresh, and
\* the history holds a record with the entry's currencies, rate and source.
C31_SnapshotWithinHistory ==
    \A p \in DOMAIN rates.pairs :
        /\ rates.last_refresh # NoRefresh
        /\ rates.pairs[p].updated_at <= rates.last_refresh[1]
        /\ \E i \in 1..Len(history) :
                /\ history[i].from_currency = p[1]
                /\ history[i].to_currency = p[2]
                /\ history[i].rate = rates.pairs[p].rate
                /\ history[i].source = rates.pairs[p].source

\* A later run stored a pair and left the pair of an earlier run behind it:
\* the snapshot holds an entry older than last_refresh and one as new
C31_Witness ==
    /\ ret.op = "run_update"
    /\ ret.err = "ok"
    /\ rates.last_refresh = <<clock>>
    /\ \E p \in DOMAIN rates.pairs : rates.pairs[p].updated_at < clock
    /\ \E p \in DOMAIN rates.pairs : rates.pairs[p].updated_at = clock
    /\ Len(history) >= 2

\* The clients of a run that returned a mapping, in the order of the run
Returned(fetch, names) == SelectSeq(names, LAMBDA name : Succeeded(fetch, name))

\* C32: a run_update that returns has invoked each selected client once, in
\* order, and holds one outcome for each: len(results) + len(errors) is the
\* number of clients invoked, the results follow the order of the clients, and
\* each rates_count is the number of pairs that client returned.
C32_OneOutcomePerClient ==
    (ret.op = "run_update" /\ ret.err = "ok") =>
        LET returned == Returned(ret.fetch, ret.invoked)
        IN  /\ ret.invoked = RunOrder(ret.source)
            /\ Len(ret.results) + Len(ret.errors) = Len(ret.invoked)
            /\ Len(ret.results) = Len(returned)
            /\ \A i \in 1..Len(returned) :
                    /\ ret.results[i].source_name = returned[i]
                    /\ ret.results[i].rates_count =
                            Cardinality(DOMAIN ret.fetch[returned[i]].rates)

\* Both clients returned the same single pair: two results of one pair each,
\* one pair written
C32_Witness ==
    /\ ret.op = "run_update"
    /\ ret.err = "ok"
    /\ ret.source = ""
    /\ Len(ret.results) = 2
    /\ ret.results[1].rates_count + ret.results[2].rates_count = 2
    /\ Cardinality(MergedPairs(ret.fetch, ret.invoked)) = 1
    /\ Cardinality(DOMAIN rates.pairs) = 1

============================================================================
